---- MODULE Spec2Model ----
(***************************************************************************)
(* Damage extraction of ai_damage_inspection:                              *)
(*   - damage_inspection/inspector.py  DamageInspector (gemini, claude,    *)
(*     fallback) and its analyze_image_sync;                               *)
(*   - app/views.py  DamageInspector (gemini, claude, model_name           *)
(*     override), its analyze_image_sync, and the handlers                 *)
(*     damage_inspection, damage_inspection_fast, damage_inspection_v2,    *)
(*     damage_inspection_v3 of DamageInspectionView;                       *)
(*   - app/damage_inspection/models.py and app/views.py  Point, Rectangle, *)
(*     DamageDetection.                                                    *)
(*                                                                         *)
(* Floats are carried as integers in thousandths: 0.1 is 100, 1.0 is 1000, *)
(* and the value 100 of a 0-1000 scale box is 100000.                      *)
(*                                                                         *)
(* The model provider is the environment: each outbound request gets a     *)
(* nondeterministic response.  The pydantic_ai Agent and FallbackModel the *)
(* code constructs run with the defaults the code leaves in place: the     *)
(* Agent validates the output against output_type and re-asks the model on *)
(* a validation failure (retries, default 1); FallbackModel moves on to    *)
(* the next model on a model HTTP error only (fallback_on default) and     *)
(* raises one exception group when every model raised one.                 *)
(***************************************************************************)
EXTENDS Integers, Sequences, FiniteSets, TLC

VARIABLES
    inspector,      \* the DamageInspector the caller constructed last
    active,         \* the DamageInspector running the current analysis
    entry,          \* the operation of the current call
    pc,             \* "idle", "running" (inside agent.run_sync), "done"
    image,          \* the image bytes the caller supplied to the current call
    run,            \* agent.run_sync: retries used, FallbackModel position, exceptions
    requests,       \* the outbound model requests of the current call, in order
    provider_out,   \* the payload of the provider's last response in this call
    outcome,        \* what the current call returned or raised
    calls,          \* the number of calls made so far
    previous        \* the agent run of the call before the current one, if it was one

vars ==
    <<inspector, active, entry, pc, image, run, requests, provider_out, outcome, calls,
      previous>>

(***************************** bounds *************************************)
MaxDets == 2        \* longest detection list a provider response carries
MaxCalls == 2       \* calls in one behaviour

SeqsUpTo(S, n) == UNION {[1..k -> S] : k \in 0..n}

(************************* inputs of the callers **************************)
Images == {"img_a", "img_b"}
NoImage == "no_image"
NoName == "no_model_name"

\* request.FILES of a view request: an image, or none
Uploads == Images \cup {NoImage}
ModelTypes == {"gemini", "claude", "fallback", "bogus"}
ModelNames == {NoName, "gemini-2.5-flash"}

(******************** taxonomy and geometry (models) **********************)
DamageTypes ==
    {"O", "MS", "T", "ST", "SL", "S", "RU", "R", "PC", "P",
     "M", "L", "G", "FF", "F", "D", "CR", "C", "BR", "BB", "B"}

Point(px, py) == [x |-> px, y |-> py]

Rectangle(x1, y1, x2, y2) == [bottom_left |-> Point(x1, y1), top_right |-> Point(x2, y2)]

(************** what a provider can answer (the environment) **************)
Absent == "<absent>"
\* one element of a structured (output_type) answer, before validation
RawDetection(code, rect, desc, sev) ==
    [name |-> "hood", damage_type |-> code, rectangle |-> rect, description |-> desc,
     severity |-> sev]

RawDetections ==
    {RawDetection("D", Rectangle(100, 200, 300, 400), "deep scratch", "minor"),
     RawDetection("S", Rectangle(100, 200, 300, 400), Absent, Absent),
     RawDetection("XX", Rectangle(100, 200, 300, 400), "deep scratch", "minor"),
     RawDetection("D", Rectangle(300, 400, 100, 200), "deep scratch", "minor"),  \* inverted
     RawDetection("D", Rectangle(0, 0, 1500, 1000), "deep scratch", "minor")}    \* out of range

AgentResponses ==
    {[kind |-> "http_error", output |-> <<>>]}
    \cup {[kind |-> "output", output |-> s] : s \in SeqsUpTo(RawDetections, MaxDets)}

\* the elements of a free-text JSON answer (box_2d as the prompts ask for it)
ProviderBoxes ==
    {<<100, 200, 300, 400>>,                    \* [x1, y1, x2, y2] in 0-1
     <<200000, 100000, 400000, 300000>>}        \* [ymin, xmin, ymax, xmax] in 0-1000

FreeItem(code, box) ==
    [damage_type |-> code, box_2d |-> box, description |-> "deep scratch",
     location |-> "hood", severity |-> "minor"]

FreeItems ==
    {FreeItem("D", b) : b \in ProviderBoxes} \cup {FreeItem("XX", <<100, 200, 300, 400>>)}

JsonValue(t, s) == [type |-> t, items |-> s]

JsonValues ==
    {JsonValue("list", s) : s \in SeqsUpTo(FreeItems, MaxDets)}
    \cup {JsonValue("object", <<>>), JsonValue("string", <<>>), JsonValue("number", <<>>)}

NoJson == JsonValue("none", <<>>)

\* response.text: well-formed JSON text denoting a value, or text that is not JSON
Texts ==
    {[wellformed |-> TRUE, value |-> v] : v \in JsonValues}
    \cup {[wellformed |-> FALSE, value |-> NoJson]}

GenaiResponses ==
    {[kind |-> "api_error", text |-> [wellformed |-> FALSE, value |-> NoJson]]}
    \cup {[kind |-> "text", text |-> t] : t \in Texts}

(***************************** outcomes ***********************************)
NoOutcome ==
    [status |-> "none", kind |-> "", errors |-> <<>>, damage_areas |-> NoJson, http |-> 0]

Success(areas) ==
    [status |-> "success", kind |-> "", errors |-> <<>>, damage_areas |-> areas, http |-> 0]

Raised(k, errs) ==
    [status |-> "error", kind |-> k, errors |-> errs, damage_areas |-> NoJson, http |-> 0]

NoRun == [retries |-> 0, idx |-> 1, exceptions |-> <<>>, history |-> <<>>]

NoPrevious == [entry |-> "none", status |-> "none"]

NoInspector ==
    [cls |-> "none", model_type |-> "none", models |-> <<>>, fallback |-> FALSE,
     agent |-> FALSE]

NoResponse == [kind |-> "none"]

(************************ Model Backend Selector **************************)
\* inspector.py DamageInspector._create_model: the models of the agent
CreateModel(mt) ==
    CASE mt = "gemini" -> <<"gemini-3.0-pro">>
      [] mt = "claude" -> <<"claude-opus-4-5">>
      [] mt = "fallback" -> <<"gemini-2.5-flash", "claude-opus-4-5">>
      [] OTHER -> <<>>

\* inspector.py _create_model: the final else raises ValueError
CreateModelRaises(mt) == mt \notin {"gemini", "claude", "fallback"}

\* inspector.py DamageInspector.__init__
CoreInspector(mt) ==
    IF CreateModelRaises(mt)
    THEN [cls |-> "core", model_type |-> mt, models |-> <<>>, fallback |-> FALSE,
          agent |-> FALSE]
    ELSE [cls |-> "core", model_type |-> mt, models |-> CreateModel(mt),
          fallback |-> (mt = "fallback"), agent |-> TRUE]

\* views.py DamageInspector.__init__: the if/elif chain that picks model_name;
\* a truthy model_name is taken before model_type is looked at
ViewModelNameRaises(mt, mn) == mn = NoName /\ mt \notin {"gemini", "claude"}

ViewModelName(mt, mn) ==
    IF mn # NoName THEN mn
    ELSE IF mt = "gemini" THEN "gemini-3-pro-preview"
    ELSE "claude-opus-4-5"

\* views.py DamageInspector.__init__
ViewInspector(mt, mn) ==
    IF ViewModelNameRaises(mt, mn)
    THEN [cls |-> "view", model_type |-> mt, models |-> <<>>, fallback |-> FALSE,
          agent |-> FALSE]
    ELSE [cls |-> "view", model_type |-> mt, models |-> <<ViewModelName(mt, mn)>>,
          fallback |-> FALSE, agent |-> TRUE]

(********************* validation against output_type *********************)
\* models.py / views.py DamageDetection, Rectangle, Point: name is a str,
\* damage_type one of the Literal codes, x and y any float; views.py also
\* requires description and severity
ValidDetection(cls, d) ==
    /\ d.damage_type \in DamageTypes
    /\ cls = "view" => (d.description # Absent /\ d.severity # Absent)

ValidOutput(cls, dets) == \A i \in 1..Len(dets) : ValidDetection(cls, dets[i])

(************************** analyze_image_sync ****************************)
\* the dict appended to damage_areas for one detection
DamageArea(cls, d) ==
    IF cls = "view"
    THEN [name |-> d.name, description |-> d.description, severity |-> d.severity,
          damage_type |-> d.damage_type,
          rectangle |-> Rectangle(d.rectangle.bottom_left.x, d.rectangle.bottom_left.y,
                                  d.rectangle.top_right.x, d.rectangle.top_right.y)]
    ELSE [name |-> d.name, damage_type |-> d.damage_type,
          rectangle |-> Rectangle(d.rectangle.bottom_left.x, d.rectangle.bottom_left.y,
                                  d.rectangle.top_right.x, d.rectangle.top_right.y)]

\* a loop that builds damage_areas in the reverse of the emission order
AnalyzeResultReversed(cls, dets) ==
    Success(JsonValue("list",
        [i \in 1..Len(dets) |-> DamageArea(cls, dets[Len(dets) + 1 - i])]))

\* the loop over result.output and the returned {"damage_areas": ...}
AnalyzeResult(cls, dets) ==
    Success(JsonValue("list", [i \in 1..Len(dets) |-> DamageArea(cls, dets[i])]))

\* a handler that swallows the exception and returns no damage areas
AnalyzeSwallow(cls, e) == Success(JsonValue("list", <<>>))

\* an exception of agent.run_sync leaves analyze_image_sync: inspector.py has no
\* handler, views.py logs and re-raises
AnalyzeRaise(cls, e) == e

\* the image input of the agent.run_sync call: the call passes the text prompt
\* and message_history=[] only
RunSyncImage(img) == NoImage

\* a call that hands the messages of the earlier run back to the agent
RunSyncHistoryKept(earlier) == earlier

\* the message_history argument of the agent.run_sync call: message_history=[],
\* whatever the agent exchanged in an earlier call
RunSyncHistory(earlier) == <<>>

\* Agent(...) is constructed without retries=: the library default
AgentRetries == 1

(***************************** view handlers ******************************)
ViewEntries == {"damage_inspection", "damage_inspection_fast", "v2", "v3"}

\* the Response of a handler: 200 with damage_areas, or 500 with str(e)
ViewResponse(out) ==
    IF out.status = "success" THEN [out EXCEPT !.http = 200] ELSE [out EXCEPT !.http = 500]

\* 'image' in request.FILES
HasImage(img) == img # NoImage

\* the Response when 'image' not in request.FILES
NoImageResponse == [Raised("No image provided", <<>>) EXCEPT !.http = 400]

Finish(e, out) == IF e \in ViewEntries THEN ViewResponse(out) ELSE out

\* json.loads(response.text)
JsonLoads(text) ==
    IF text.wellformed THEN [ok |-> TRUE, value |-> text.value]
    ELSE [ok |-> FALSE, value |-> NoJson]

\* len(json_output) in the log line: defined for list, dict and str
PyLenDefined(v) == v.type \in {"list", "object", "string"}

\* damage_inspection_v2 / damage_inspection_v3 after generate_content
FreeTextOutcome(resp) ==
    IF resp.kind = "api_error" THEN Raised("APIError", <<>>)
    ELSE IF ~JsonLoads(resp.text).ok THEN Raised("JSONDecodeError", <<>>)
    ELSE IF ~PyLenDefined(JsonLoads(resp.text).value) THEN Raised("TypeError", <<>>)
    ELSE Success(JsonLoads(resp.text).value)

Init ==
    /\ inspector = NoInspector
    /\ active = NoInspector
    /\ entry = "none"
    /\ pc = "idle"
    /\ image = NoImage
    /\ run = NoRun
    /\ requests = <<>>
    /\ provider_out = NoResponse
    /\ outcome = NoOutcome
    /\ calls = 0
    /\ previous = NoPrevious

(******************************** actions *********************************)
CanCall == pc # "running" /\ calls < MaxCalls

\* the call that is ending as the next one begins, when it ran the agent
EarlierRun ==
    IF entry \in {"analyze", "damage_inspection", "damage_inspection_fast"}
        /\ requests # <<>>
    THEN [entry |-> entry, status |-> outcome.status]
    ELSE NoPrevious

\* the per-call state of a call that makes no agent run
Returned(e, img, out) ==
    /\ entry' = e
    /\ image' = img
    /\ outcome' = out
    /\ pc' = "done"
    /\ run' = NoRun
    /\ calls' = calls + 1
    /\ previous' = EarlierRun

\* the requests of the call just before, when it ran the agent of inspector insp
EarlierMessages(insp) ==
    IF entry \in {"analyze", "damage_inspection", "damage_inspection_fast"} /\ active = insp
    THEN requests ELSE <<>>

\* the per-call state of a call that enters agent.run_sync
Started(e, img, insp) ==
    /\ entry' = e
    /\ image' = img
    /\ active' = insp
    /\ outcome' = NoOutcome
    /\ pc' = "running"
    /\ run' = [NoRun EXCEPT !.history = RunSyncHistory(EarlierMessages(insp))]
    /\ requests' = <<>>
    /\ provider_out' = NoResponse
    /\ calls' = calls + 1
    /\ previous' = EarlierRun

\* DamageInspector(model_type=mt) of damage_inspection/inspector.py
ConstructInspector(mt) ==
    /\ CanCall
    /\ inspector' = CoreInspector(mt)
    /\ Returned("construct", NoImage,
                IF CoreInspector(mt).agent THEN Success(NoJson)
                ELSE Raised("ValueError", <<>>))
    /\ requests' = <<>>
    /\ provider_out' = NoResponse
    /\ UNCHANGED active

\* DamageInspector(model_type=mt, model_name=mn) of app/views.py
ConstructViewInspector(mt, mn) ==
    /\ CanCall
    /\ inspector' = ViewInspector(mt, mn)
    /\ Returned("construct", NoImage,
                IF ViewInspector(mt, mn).agent THEN Success(NoJson)
                ELSE Raised("ValueError", <<>>))
    /\ requests' = <<>>
    /\ provider_out' = NoResponse
    /\ UNCHANGED active

\* inspector.analyze_image_sync(img) on the inspector the caller holds
AnalyzeImageSync(img) ==
    /\ CanCall
    /\ inspector.agent
    /\ Started("analyze", img, inspector)
    /\ UNCHANGED inspector

\* DamageInspectionView.damage_inspection: self.inspector is
\* DamageInspector(model_type='gemini') of views.py
DamageInspection(img) ==
    /\ CanCall
    /\ IF HasImage(img)
       THEN Started("damage_inspection", img, ViewInspector("gemini", NoName))
       ELSE /\ Returned("damage_inspection", NoImage, NoImageResponse)
            /\ requests' = <<>>
            /\ provider_out' = NoResponse
            /\ UNCHANGED active
    /\ UNCHANGED inspector

\* DamageInspectionView.damage_inspection_fast: a fresh
\* DamageInspector(model_type='gemini', model_name='gemini-2.5-flash')
DamageInspectionFast(img) ==
    /\ CanCall
    /\ IF HasImage(img)
       THEN Started("damage_inspection_fast", img,
                    ViewInspector("gemini", "gemini-2.5-flash"))
       ELSE /\ Returned("damage_inspection_fast", NoImage, NoImageResponse)
            /\ requests' = <<>>
            /\ provider_out' = NoResponse
            /\ UNCHANGED active
    /\ UNCHANGED inspector

\* one outbound model request of agent.run_sync and what the Agent and the
\* FallbackModel do with its response
ModelRequest ==
    /\ pc = "running"
    /\ \E resp \in AgentResponses :
        LET backend == active.models[run.idx]
            n == Len(active.models)
            valid == resp.kind = "output" /\ ValidOutput(active.cls, resp.output)
            result == IF resp.kind = "http_error" THEN "ModelHTTPError"
                      ELSE IF valid THEN "ok" ELSE "ValidationError"
            req == [backend |-> backend, pos |-> run.idx, image |-> RunSyncImage(image),
                    message_history |-> run.history, retry |-> run.retries,
                    result |-> result]
            excs == Append(run.exceptions, [backend |-> backend, kind |-> "ModelHTTPError"])
        IN  /\ requests' = Append(requests, req)
            /\ provider_out' = resp
            /\ CASE result = "ok" ->
                     /\ outcome' = Finish(entry, AnalyzeResult(active.cls, resp.output))
                     /\ pc' = "done"
                     /\ UNCHANGED run
                 [] result = "ValidationError" /\ run.retries < AgentRetries ->
                     \* the Agent re-asks its model: a FallbackModel starts over
                     /\ run' = [run EXCEPT !.retries = run.retries + 1, !.idx = 1,
                                            !.exceptions = <<>>]
                     /\ UNCHANGED <<outcome, pc>>
                 [] result = "ValidationError" /\ run.retries >= AgentRetries ->
                     /\ outcome' = Finish(entry, AnalyzeRaise(active.cls,
                                            Raised("UnexpectedModelBehavior", <<>>)))
                     /\ pc' = "done"
                     /\ UNCHANGED run
                 [] result = "ModelHTTPError" /\ active.fallback /\ run.idx < n ->
                     /\ run' = [run EXCEPT !.idx = run.idx + 1, !.exceptions = excs]
                     /\ UNCHANGED <<outcome, pc>>
                 [] result = "ModelHTTPError" /\ active.fallback /\ run.idx >= n ->
                     /\ outcome' = Finish(entry, AnalyzeRaise(active.cls,
                                            Raised("FallbackExceptionGroup", excs)))
                     /\ pc' = "done"
                     /\ run' = [run EXCEPT !.exceptions = excs]
                 [] result = "ModelHTTPError" /\ ~active.fallback ->
                     /\ outcome' = Finish(entry, AnalyzeRaise(active.cls,
                                            Raised("ModelHTTPError", excs)))
                     /\ pc' = "done"
                     /\ UNCHANGED run
    /\ UNCHANGED <<inspector, active, entry, image, calls, previous>>

\* the generate_content request of damage_inspection_v2 / _v3: image_bytes and
\* the prompt in one user Content
GenaiRequest(img) ==
    [backend |-> "gemini-3-pro-preview", pos |-> 1, image |-> img,
     message_history |-> <<>>, retry |-> 0, result |-> "sent"]

FreeTextHandler(e, img) ==
    /\ CanCall
    /\ IF HasImage(img)
       THEN \E resp \in GenaiResponses :
            /\ Returned(e, img, ViewResponse(FreeTextOutcome(resp)))
            /\ requests' = <<[GenaiRequest(img) EXCEPT !.result = resp.kind]>>
            /\ provider_out' = resp
       ELSE /\ Returned(e, NoImage, NoImageResponse)
            /\ requests' = <<>>
            /\ provider_out' = NoResponse
    /\ UNCHANGED <<inspector, active>>

\* DamageInspectionView.damage_inspection_v2
DamageInspectionV2(img) == FreeTextHandler("v2", img)

\* DamageInspectionView.damage_inspection_v3
DamageInspectionV3(img) == FreeTextHandler("v3", img)

Next ==
    \/ \E mt \in ModelTypes : ConstructInspector(mt)
    \/ \E mt \in ModelTypes, mn \in ModelNames : ConstructViewInspector(mt, mn)
    \/ \E img \in Images : AnalyzeImageSync(img)
    \/ \E img \in Uploads : DamageInspection(img)
    \/ \E img \in Uploads : DamageInspectionFast(img)
    \/ ModelRequest
    \/ \E img \in Uploads : DamageInspectionV2(img)
    \/ \E img \in Uploads : DamageInspectionV3(img)

Spec == Init /\ [][Next]_vars

(***************************** the claims *********************************)
AgentEntries == {"analyze", "damage_inspection", "damage_inspection_fast"}
FreeTextEntries == {"v2", "v3"}
KnownBackends == {"gemini", "claude", "fallback"}

LastRequest == requests[Len(requests)]

\* a fallback chain is running or has run in the current call
FallbackCall == entry = "analyze" /\ active.fallback /\ pc # "idle"

\* the returned areas are the detections of the provider's answer, field by field
ResultUnmodified ==
    /\ outcome.status = "success"
    /\ provider_out.kind = "output"
    /\ Len(outcome.damage_areas.items) = Len(provider_out.output)
    /\ \A k \in 1..Len(provider_out.output) :
        /\ outcome.damage_areas.items[k].name = provider_out.output[k].name
        /\ outcome.damage_areas.items[k].damage_type = provider_out.output[k].damage_type
        /\ outcome.damage_areas.items[k].rectangle = provider_out.output[k].rectangle

\* C1: in a fallback chain the backends are attempted one at a time in the given
\* order: the first request goes to backend 1, every later request goes to the
\* backend after the one that just failed, a failure of any kind at a backend that
\* is not the last is followed by an attempt of the next one, and a success ends
\* the call with that backend's result unmodified.
C1_FallbackSequentialAnyFailure ==
    FallbackCall =>
        \A i \in 1..Len(requests) :
            /\ i = 1 => requests[i].pos = 1
            /\ i > 1 => /\ requests[i - 1].result # "ok"
                        /\ requests[i].pos = requests[i - 1].pos + 1
            /\ (requests[i].result # "ok" /\ requests[i].pos < Len(active.models))
                  => (i < Len(requests) \/ pc = "running")
            /\ requests[i].result = "ok"
                  => (i = Len(requests) /\ pc = "done" /\ ResultUnmodified)

\* every backend of the chain was attempted and every attempt failed
EveryBackendFailed ==
    /\ \A i \in 1..Len(requests) : requests[i].result # "ok"
    /\ \A k \in 1..Len(active.models) : \E i \in 1..Len(requests) : requests[i].pos = k

\* C2: when every backend of a fallback chain of length N has failed, the call
\* raises one aggregated error carrying exactly N per-backend failures in attempt
\* order, never the bare failure of the last attempt.
C2_AllFailedAggregated ==
    (FallbackCall /\ pc = "done" /\ EveryBackendFailed) =>
        /\ outcome.status = "error"
        /\ outcome.kind = "FallbackExceptionGroup"
        /\ Len(outcome.errors) = Len(active.models)
        /\ \A k \in 1..Len(outcome.errors) : outcome.errors[k].backend = active.models[k]

\* C3: every outbound model request of a call carries the image bytes the caller
\* supplied to that call.
C3_RequestCarriesImage ==
    entry \in AgentEntries \cup FreeTextEntries =>
        \A i \in 1..Len(requests) : requests[i].image = image

\* the current call is an extraction against one backend that reached the provider
SingleBackendCall ==
    /\ pc = "done"
    /\ requests # <<>>
    /\ \/ entry \in FreeTextEntries
       \/ entry \in AgentEntries /\ ~active.fallback

\* C4: an extraction call against a single backend issues exactly one outbound
\* model request, whether it succeeds or fails.
C4_OneRequestPerCall == SingleBackendCall => Len(requests) = 1

\* C5: constructing an inspector for a backend identifier outside gemini, claude,
\* fallback fails (ValueError), with or without a model-name override; no agent
\* is constructed and no request is sent.
C5_UnknownBackendRejected ==
    (pc = "done" /\ entry = "construct" /\ inspector.model_type \notin KnownBackends) =>
        /\ outcome.status = "error"
        /\ outcome.kind = "ValueError"
        /\ ~inspector.agent
        /\ requests = <<>>

\* the provider's last answer has an element whose damage_type is outside the set
UnknownCodeAnswered ==
    \/ /\ entry \in AgentEntries
       /\ provider_out.kind = "output"
       /\ \E k \in 1..Len(provider_out.output) :
            provider_out.output[k].damage_type \notin DamageTypes
    \/ /\ entry \in FreeTextEntries
       /\ provider_out.kind = "text"
       /\ provider_out.text.wellformed
       /\ provider_out.text.value.type = "list"
       /\ \E k \in 1..Len(provider_out.text.value.items) :
            provider_out.text.value.items[k].damage_type \notin DamageTypes

\* the exception kinds that stand for SchemaViolation and ResponseParseError
SchemaViolationKinds == {"UnexpectedModelBehavior", "ValidationError"}
ParseErrorKinds == {"JSONDecodeError", "TypeError"}

\* C6: in both extraction modes, an answer with a damage_type outside the 21
\* codes makes the call fail with a schema violation and return no detection.
C6_UnknownCodeRejected ==
    (pc = "done" /\ UnknownCodeAnswered) =>
        /\ outcome.status = "error"
        /\ outcome.kind \in SchemaViolationKinds
        /\ outcome.damage_areas = NoJson

\* the geometry contract of a rectangle, in thousandths
GeometryOK(r) ==
    /\ r.bottom_left.x <= r.top_right.x
    /\ r.bottom_left.y <= r.top_right.y
    /\ \A c \in {r.bottom_left.x, r.bottom_left.y, r.top_right.x, r.top_right.y} :
        0 <= c /\ c <= 1000

\* C7: every detection analyze_image_sync returns has bottom_left <= top_right on
\* both axes and all four coordinates in [0.0, 1.0].
C7_ReturnedGeometryValid ==
    (pc = "done" /\ entry \in AgentEntries /\ outcome.status = "success") =>
        \A k \in 1..Len(outcome.damage_areas.items) :
            GeometryOK(outcome.damage_areas.items[k].rectangle)

\* the free-text answer is not JSON, or is JSON whose top level is not a list
NotAJsonList ==
    /\ entry \in FreeTextEntries
    /\ provider_out.kind = "text"
    /\ ~(provider_out.text.wellformed /\ provider_out.text.value.type = "list")

\* C8: in free-text mode, an answer that is not JSON or whose top level is not a
\* list makes the call fail with a parse error and is never returned as a success.
C8_NonListIsParseError ==
    (pc = "done" /\ NotAJsonList) =>
        /\ outcome.status = "error"
        /\ outcome.kind \in ParseErrorKinds

\* the provider's last answer is a valid empty detection list
EmptyAnswer ==
    \/ /\ entry \in AgentEntries
       /\ provider_out.kind = "output"
       /\ provider_out.output = <<>>
    \/ /\ entry \in FreeTextEntries
       /\ provider_out.kind = "text"
       /\ provider_out.text.wellformed
       /\ provider_out.text.value = JsonValue("list", <<>>)

\* the provider request or the validation of its answer failed in the last attempt
CallFailed ==
    \/ /\ entry \in AgentEntries
       /\ requests # <<>>
       /\ LastRequest.result \in {"ModelHTTPError", "ValidationError"}
    \/ /\ entry \in FreeTextEntries
       /\ provider_out.kind \in {"api_error", "text"}
       /\ provider_out.kind = "text" => ~provider_out.text.wellformed

\* C9: an empty detection list from the provider is returned as a success with 0
\* damage areas, and a call whose provider request or validation failed ends in an
\* error that carries no damage areas (never a success, empty or partial).
C9_EmptyIsSuccessFailureIsError ==
    pc = "done" =>
        /\ EmptyAnswer =>
            /\ outcome.status = "success"
            /\ outcome.damage_areas = JsonValue("list", <<>>)
            /\ outcome.http \in {0, 200}
        /\ CallFailed =>
            /\ outcome.status = "error"
            /\ outcome.damage_areas = NoJson
            /\ outcome.http \in {0, 500}

\* C9 witness: analyze_image_sync has returned 0 damage areas for an empty answer
C9_Witness_EmptySuccess ==
    /\ pc = "done"
    /\ entry = "analyze"
    /\ EmptyAnswer
    /\ outcome.status = "success"
    /\ Len(outcome.damage_areas.items) = 0

\* a [ymin, xmin, ymax, xmax] box on the 0-1000 scale as a canonical rectangle
CanonicalOf1000(box) ==
    Rectangle(box[2] \div 1000, box[1] \div 1000, box[4] \div 1000, box[3] \div 1000)

\* C10: every damage area damage_inspection_v3 returns holds the provider's
\* 0-1000 box divided by 1000 as a canonical rectangle in 0-1.
C10_BoxDividedByScale ==
    (pc = "done" /\ entry = "v3" /\ outcome.status = "success"
        /\ outcome.damage_areas.type = "list") =>
        \A k \in 1..Len(outcome.damage_areas.items) :
            /\ "rectangle" \in DOMAIN outcome.damage_areas.items[k]
            /\ outcome.damage_areas.items[k].rectangle
                 = CanonicalOf1000(provider_out.text.value.items[k].box_2d)
            /\ GeometryOK(outcome.damage_areas.items[k].rectangle)

\* the provider's last answer is a detection list in which every element has a
\* name, a damage_type of the 21 codes and a rectangle
CanonicalAnswer ==
    /\ entry \in AgentEntries
    /\ provider_out.kind = "output"
    /\ \A k \in 1..Len(provider_out.output) :
        provider_out.output[k].damage_type \in DamageTypes

\* every element of the answer also has the description and severity that
\* DamageDetection of app/views.py requires
HasDescriptionAndSeverity ==
    \A k \in 1..Len(provider_out.output) :
        /\ provider_out.output[k].description # Absent
        /\ provider_out.output[k].severity # Absent

\* C11 as stated: every answer of detections with name, damage_type and rectangle
\* is returned with the same number of areas, in emission order, duplicates kept,
\* values unchanged, also when description and severity are missing.
C11_CanonicalAnswerReturned ==
    (pc = "done" /\ CanonicalAnswer) => ResultUnmodified

\* C11 amended: the same, for the answers that conform to the DamageDetection of
\* the inspector in use: app/views.py requires description and severity,
\* damage_inspection/inspector.py does not.
C11_ConformingAnswerReturned ==
    (pc = "done" /\ CanonicalAnswer
        /\ (active.cls = "view" => HasDescriptionAndSeverity)) => ResultUnmodified

\* C11 witness: the inspector of inspector.py has returned exactly one area for a
\* single detection without description and severity
C11_Witness_SingleWithoutExtras ==
    /\ pc = "done"
    /\ entry = "analyze"
    /\ active.cls = "core"
    /\ CanonicalAnswer
    /\ Len(provider_out.output) = 1
    /\ provider_out.output[1].description = Absent
    /\ Len(outcome.damage_areas.items) = 1
    /\ outcome.damage_areas.items[1].damage_type = provider_out.output[1].damage_type

\* the outcome of an agent call follows from its own last attempt: the answer's
\* detections on success, the validation failure, or the HTTP errors of the
\* backends this call asked
OutcomeIsOwn ==
    /\ LastRequest.result = "ok" => ResultUnmodified
    /\ LastRequest.result = "ValidationError" =>
        (outcome.status = "error" /\ outcome.kind = "UnexpectedModelBehavior")
    /\ LastRequest.result = "ModelHTTPError" =>
        /\ outcome.status = "error"
        /\ outcome.kind \in {"ModelHTTPError", "FallbackExceptionGroup"}
        /\ outcome.errors # <<>>
        /\ \A k \in 1..Len(outcome.errors) :
            \E i \in 1..Len(requests) :
                /\ requests[i].backend = outcome.errors[k].backend
                /\ requests[i].result = "ModelHTTPError"
                /\ requests[i].retry = LastRequest.retry

\* C12: whatever calls came before, every outbound request of a call is issued
\* with an empty message history, the first request of a call is a fresh first
\* attempt at the first backend, a call that has not yet heard from the provider
\* holds no result, error or answer, and the outcome of a finished call follows
\* from its own attempts alone.
C12_CallsAreIndependent ==
    /\ \A i \in 1..Len(requests) : requests[i].message_history = <<>>
    /\ entry \in AgentEntries =>
        /\ requests # <<>> => (requests[1].retry = 0 /\ requests[1].pos = 1)
        /\ (pc = "running" /\ requests = <<>>) =>
              (outcome = NoOutcome /\ provider_out = NoResponse /\ run.retries = 0)
        /\ (pc = "done" /\ requests # <<>>) => OutcomeIsOwn

\* C12 witness: an analysis that failed on the inspector whose previous analysis
\* had succeeded
C12_Witness_SecondCallOnSameInspector ==
    /\ pc = "done"
    /\ entry \in {"analyze", "damage_inspection"}
    /\ previous.entry = entry
    /\ previous.status = "success"
    /\ requests # <<>>
    /\ outcome.status = "error"

====
